---- MODULE Spec2Model ----
(***************************************************************************)
(* A model of PowerPlatformService.ts and of the tool handlers that call   *)
(* it: the lazily created service singleton, its cached access token, the  *)
(* authenticated GET primitive makeRequest and the seven tool handlers.    *)
(*                                                                         *)
(* JavaScript runs every handler to its next await without interruption,   *)
(* so one action is one run-to-suspension segment.  Each `await` of a      *)
(* promise the service does not control (the MSAL exchange, the token      *)
(* promise awaited by makeRequest, the axios GET) is a point where any     *)
(* other invocation's continuation may run first.  Continuations that only *)
(* pass a settled value upwards (makeRequest -> operation -> Promise.all   *)
(* -> handler) read and write nothing shared and are folded into the step  *)
(* that settles the request.                                               *)
(*                                                                         *)
(* Strings built by template literals are sequences of their pieces.       *)
(***************************************************************************)
EXTENDS Integers, Sequences, FiniteSets, TLC

\* ------------------------------------------------------------------ bounds
\* tool invocations the host may have in flight at once
NumInvocations == 2
\* the clock advances at most this many times
MaxTicks == 1
\* an authority's token lives for 1..MaxLifetime refresh margins
MaxLifetime == 2

Invocations == 1..NumInvocations
Slots == {1, 2}

\* ------------------------------------------------------------------ values
Null == "null"
Tokens == {"tokA", "tokB"}
\* logical names of entities, attributes and option sets; plural entity names
Names == {"account", "contact"}
PluralNames == {"accounts", "contacts"}
RecordIds == {"11111111-1111-1111-1111-111111111111"}
ConfigFields == <<"organizationUrl", "clientId", "clientSecret", "tenantId">>

Tools ==
  {"get-entity-metadata", "get-entity-attributes", "get-entity-attribute",
   "get-entity-relationships", "get-global-option-set", "get-record",
   "query-records"}

\* An optional value (T | null | undefined) is <<>> or <<v>>.
None == <<>>
Some(v) == <<v>>

\* 5 * 60 * 1000: the early-refresh margin of getAccessToken, in ms.
RefreshMarginMs == 5 * 60 * 1000
\* Date.now() when the process starts: later than the initial expiration 0.
StartTime == RefreshMarginMs
EndTime == StartTime + MaxTicks * RefreshMarginMs

\* Errors: [name, message]; `${error}` renders "<name>: <message>".
Err(name, message) == [name |-> name, message |-> message]
NoError == Err("", <<>>)
ErrorToString(e) == <<e.name>> \o e.message

\* Response bodies as axios parses them: JSON null, an object without a
\* `value` property, an object whose `value` is an array of n entries.
Body(kind, n) == [kind |-> kind, n |-> n]
Bodies == {Body("null", 0), Body("object", 0), Body("list", 1)}

\* ------------------------------------------------- configuration (index.ts)
\* process.env.X || "": an unset variable is the empty string.
ConfigValues == {"", "set"}
Configs == [{ConfigFields[k] : k \in 1..4} -> ConfigValues]

RECURSIVE missingFrom(_, _)
\* the pushes of getPowerPlatformService, in source order, from field k on
missingFrom(cfg, k) ==
  IF k > Len(ConfigFields) THEN <<>>
  ELSE (IF cfg[ConfigFields[k]] = "" THEN <<ConfigFields[k]>> ELSE <<>>)
         \o missingFrom(cfg, k + 1)

\* missingConfig without the check of organizationUrl
missingConfig_SkipsUrl(cfg) == missingFrom(cfg, 2)

missingConfig(cfg) == missingFrom(cfg, 1)

ConfigError(cfg) ==
  Err("Error", <<"Missing PowerPlatform configuration: ">> \o missingConfig(cfg)
                 \o <<". Set these in environment variables.">>)

\* ------------------------------------------------ pure parts of the service
\* tokenIsFresh with the refresh margin taken off a second time
tokenIsFresh_MarginTwice(tok, exp, currentTime) ==
  tok # Null /\ tok # "" /\ exp - RefreshMarginMs > currentTime

\* getAccessToken's test: this.accessToken && this.tokenExpirationTime > currentTime
tokenIsFresh(tok, exp, currentTime) ==
  tok # Null /\ tok # "" /\ exp > currentTime

\* !result || !result.accessToken
exchangeUnusable(res) ==
  res.kind # "result" \/ res.accessToken = ""

\* nextExpiration without the early-refresh margin
nextExpiration_NoMargin(exp, res) ==
  IF res.expiresOn # None THEN res.expiresOn[1] ELSE exp

\* nextExpiration resetting the expiration when the result carries none
nextExpiration_ResetWhenAbsent(exp, res) ==
  IF res.expiresOn # None THEN res.expiresOn[1] - RefreshMarginMs ELSE 0

\* if (result.expiresOn) this.tokenExpirationTime = expiresOn.getTime() - margin
nextExpiration(exp, res) ==
  IF res.expiresOn # None THEN res.expiresOn[1] - RefreshMarginMs ELSE exp

AuthenticationFailed == Err("Error", <<"Authentication failed">>)

\* requestFailed rethrowing what it caught
requestFailed_Rethrow(error) == error

\* makeRequest's catch: new Error(`PowerPlatform API request failed: ${error}`)
requestFailed(error) ==
  Err("Error", <<"PowerPlatform API request failed: ">> \o ErrorToString(error))

\* axios rejections: no response, or a status outside 2xx
AxiosErrors ==
  {Err("AxiosError", <<"Network Error">>),
   Err("AxiosError", <<"Request failed with status code 401">>)}

\* encodeURIComponent, piece by piece: a space becomes %20; letters, digits
\* and - _ . ! ~ * ' ( ) are kept.
encodeURIComponent(str) ==
  [k \in 1..Len(str) |-> IF str[k] = " " THEN "%20" ELSE str[k]]

Filters == {<<"name", " ", "eq", " ", "'", "test", "'">>}
MaxRecordsValues == {None, Some(0), Some(10)}

getEntityMetadata(entityName) ==
  <<"api/data/v9.2/EntityDefinitions(LogicalName='", entityName, "')">>
getEntityAttributes(entityName) ==
  <<"api/data/v9.2/EntityDefinitions(LogicalName='", entityName, "')/Attributes">>
getEntityAttribute(entityName, attributeName) ==
  <<"api/data/v9.2/EntityDefinitions(LogicalName='", entityName,
    "')/Attributes(LogicalName='", attributeName, "')">>
getEntityOneToManyRelationships(entityName) ==
  <<"api/data/v9.2/EntityDefinitions(LogicalName='", entityName,
    "')/OneToManyRelationships">>
getEntityManyToManyRelationships(entityName) ==
  <<"api/data/v9.2/EntityDefinitions(LogicalName='", entityName,
    "')/ManyToManyRelationships">>
getGlobalOptionSet(optionSetName) ==
  <<"api/data/v9.2/GlobalOptionSetDefinitions(Name='", optionSetName, "')">>
\* getRecord with its two arguments exchanged
getRecord_Swapped(entityNamePlural, recordId) ==
  <<"api/data/v9.2/", recordId, "(", entityNamePlural, ")">>
getRecord(entityNamePlural, recordId) ==
  <<"api/data/v9.2/", entityNamePlural, "(", recordId, ")">>
\* maxRecords: number = 50 applies when the argument is undefined
queryRecords(entityNamePlural, filter, maxRecords) ==
  <<"api/data/v9.2/", entityNamePlural, "?$filter=">> \o encodeURIComponent(filter)
    \o <<"&$top=", ToString(IF maxRecords = None THEN 50 ELSE maxRecords[1])>>

\* the handler's argument: maxRecords || 50
handlerMaxRecords(maxRecords) ==
  IF maxRecords = None \/ maxRecords[1] = 0 THEN Some(50) ELSE maxRecords

\* The arguments of one tool invocation: [tool, a1, a2, a3].
Args(tool, a1, a2, a3) == [tool |-> tool, a1 |-> a1, a2 |-> a2, a3 |-> a3]
NoArgs == Args("", "", <<>>, None)
ToolArgs ==
  {Args(t, n, <<>>, None) :
     t \in {"get-entity-metadata", "get-entity-attributes",
            "get-entity-relationships", "get-global-option-set"}, n \in Names}
  \cup {Args("get-entity-attribute", n, <<"name">>, None) : n \in Names}
  \cup {Args("get-record", n, <<id>>, None) : n \in PluralNames, id \in RecordIds}
  \cup {Args("query-records", n, f, m) :
          n \in PluralNames, f \in Filters, m \in MaxRecordsValues}

\* The endpoints the service method of a tool hands to makeRequest, in the
\* order the calls are made.
serviceEndpoints(a) ==
  CASE a.tool = "get-entity-metadata" -> <<getEntityMetadata(a.a1)>>
    [] a.tool = "get-entity-attributes" -> <<getEntityAttributes(a.a1)>>
    [] a.tool = "get-entity-attribute" -> <<getEntityAttribute(a.a1, a.a2[1])>>
    [] a.tool = "get-entity-relationships" ->
         <<getEntityOneToManyRelationships(a.a1),
           getEntityManyToManyRelationships(a.a1)>>
    [] a.tool = "get-global-option-set" -> <<getGlobalOptionSet(a.a1)>>
    [] a.tool = "get-record" -> <<getRecord(a.a1, a.a2[1])>>
    [] a.tool = "query-records" ->
         <<queryRecords(a.a1, a.a2, handlerMaxRecords(a.a3))>>

\* JSON.stringify(value, null, 2) of a response body
stringifyBody(b) ==
  CASE b.kind = "null" -> <<"null">>
    [] b.kind = "object" -> <<"{}">>
    [] b.kind = "list" -> <<"{value:[", ToString(b.n), "]}">>

\* JSON.stringify of what the service method resolved to: the body, or
\* {oneToMany, manyToMany} for the combined relationships
JSONstringify(a, value) ==
  IF a.tool = "get-entity-relationships"
  THEN <<"{oneToMany:">> \o stringifyBody(value[1]) \o <<",manyToMany:">>
         \o stringifyBody(value[2]) \o <<"}">>
  ELSE stringifyBody(value[1])

failurePrefix(tool) ==
  CASE tool = "get-entity-metadata" -> "Failed to get entity metadata: "
    [] tool = "get-entity-attributes" -> "Failed to get entity attributes: "
    [] tool = "get-entity-attribute" -> "Failed to get entity attribute: "
    [] tool = "get-entity-relationships" -> "Failed to get entity relationships: "
    [] tool = "get-global-option-set" -> "Failed to get global option set: "
    [] tool = "get-record" -> "Failed to get record: "
    [] tool = "query-records" -> "Failed to query records: "

\* the catch block of every handler
failureText(tool, error) == <<failurePrefix(tool)>> \o ErrorToString(error)

successPrefix(a) ==
  CASE a.tool = "get-entity-metadata" -> <<"Entity metadata for ", a.a1>>
    [] a.tool = "get-entity-attributes" -> <<"Attributes for entity ", a.a1>>
    [] a.tool = "get-entity-attribute" ->
         <<"Attribute ", a.a2[1], " for entity ", a.a1>>
    [] a.tool = "get-entity-relationships" -> <<"Relationships for entity ", a.a1>>
    [] a.tool = "get-global-option-set" -> <<"Global option set ", a.a1>>
    [] a.tool = "get-record" -> <<"Record from ", a.a1, " with ID ", a.a2[1]>>

\* records.value?.length || 0 reads a property of `records`
recordCount(b) == IF b.kind = "list" THEN b.n ELSE 0

ReadOfNull == Err("TypeError", <<"Cannot read properties of null (reading 'value')">>)

\* The try block of a handler after the service call resolved with `value`:
\* the text it returns, or the catch block's text when the block throws.
successText(a, value) ==
  IF a.tool = "query-records"
  THEN IF value[1].kind = "null"
       THEN failureText(a.tool, ReadOfNull)
       ELSE <<"Retrieved ", ToString(recordCount(value[1])), " records from ", a.a1,
              " with filter ">> \o a.a2 \o <<":\n\n">> \o JSONstringify(a, value)
  ELSE successPrefix(a) \o <<":\n\n">> \o JSONstringify(a, value)

\* ------------------------------------------------------------------- state
VARIABLES
  POWERPLATFORM_CONFIG,  \* the four settings read from the environment at load
  powerPlatformService,  \* TRUE once the singleton exists (null before)
  instances,             \* how many times the constructor has run
  accessToken,           \* this.accessToken: Null or the cached token
  tokenExpirationTime,   \* this.tokenExpirationTime, ms
  now,                   \* Date.now(), ms
  inv,                   \* per invocation: the handler and the promise it awaits
  req                    \* per invocation and slot: one makeRequest call

vars == <<POWERPLATFORM_CONFIG, powerPlatformService, instances, accessToken,
          tokenExpirationTime, now, inv, req>>

\* What acquireTokenByClientCredential settles with: it rejects ("throw"),
\* resolves to null ("null"), or resolves to a result whose accessToken may be
\* empty and whose expiresOn (Date | null) may be absent.
Result(kind, tok, expiresOn) ==
  [kind |-> kind, accessToken |-> tok, expiresOn |-> expiresOn]
NoResult == Result("none", "", None)
ExchangeResults(t) ==
  {Result("throw", "", None), Result("null", "", None),
   Result("result", "", Some(t + MaxLifetime * RefreshMarginMs))}
  \cup {Result("result", tok, e) :
          tok \in Tokens,
          e \in {None} \cup {Some(t + k * RefreshMarginMs) : k \in 1..MaxLifetime}}

\* every result MSAL can settle with at some time of the run
Times == {StartTime + k * RefreshMarginMs : k \in 0..MaxTicks}
AllExchangeResults == UNION {ExchangeResults(t) : t \in Times}

NoBody == Body("none", 0)

\* One makeRequest call.  pc: "idle" (not called), "exchanging" (awaiting
\* MSAL), "gotToken" (getAccessToken returned, makeRequest not yet resumed),
\* "getting" (awaiting axios), "done", "failed".  token: makeRequest's local.
\* auth: what MSAL settled with, kept until the call moves on.  log: the
\* network events of this call, in order.
Request(pc, endpoint, token, log, auth, data, error) ==
  [pc |-> pc, endpoint |-> endpoint, token |-> token, log |-> log, auth |-> auth,
   data |-> data, error |-> error]
IdleRequest == Request("idle", <<>>, Null, <<>>, NoResult, NoBody, NoError)

\* One handler invocation.  promise: the state of the promise the handler
\* awaits ("none" before the service method is called).
Invocation(st, args, promise, value, error, text) ==
  [st |-> st, args |-> args, promise |-> promise, value |-> value,
   error |-> error, text |-> text]
IdleInvocation == Invocation("idle", NoArgs, "none", <<>>, NoError, <<>>)

Init ==
  /\ POWERPLATFORM_CONFIG \in Configs
  /\ powerPlatformService = FALSE
  /\ instances = 0
  /\ accessToken = Null
  /\ tokenExpirationTime = 0
  /\ now = StartTime
  /\ inv = [i \in Invocations |-> IdleInvocation]
  /\ req = [i \in Invocations |-> [s \in Slots |-> IdleRequest]]

\* ----------------------------------------------------------------- helpers
\* makeRequest up to its first suspension: getAccessToken reads the clock and
\* either returns the cached token or calls MSAL.
beginRequest(endpoint, tok, exp, currentTime) ==
  IF tokenIsFresh(tok, exp, currentTime)
  THEN Request("gotToken", endpoint, tok, <<"cached">>, NoResult, NoBody, NoError)
  ELSE Request("exchanging", endpoint, Null, <<"exchange">>, NoResult, NoBody, NoError)

\* tokenAcquired returning the token the call saw before the exchange
tokenAcquired_Stale(r, res) ==
  [r EXCEPT !.pc = "gotToken", !.log = Append(@, "token"), !.auth = res]

\* getAccessToken resumed with a usable result, then `return this.accessToken`
tokenAcquired(r, res) ==
  [r EXCEPT !.pc = "gotToken", !.token = res.accessToken,
            !.log = Append(@, "token"), !.auth = res]

\* getAccessToken's catch, then makeRequest's catch
tokenRefused(r, res) ==
  [r EXCEPT !.pc = "failed", !.log = Append(@, "authError"), !.auth = res,
            !.error = requestFailed(AuthenticationFailed)]

\* makeRequest resumed with the token: the axios call
getIssued(r) ==
  [r EXCEPT !.pc = "getting", !.log = Append(@, "get"), !.auth = NoResult]

\* return response.data
getReturned(r, body) ==
  [r EXCEPT !.pc = "done", !.log = Append(@, "data"), !.data = body, !.token = Null]

\* getRejected trying the GET again with the token it holds
getRejected_Retry(r, e) ==
  [r EXCEPT !.pc = "gotToken", !.log = Append(@, "apiError"),
            !.error = requestFailed(e)]

\* makeRequest's catch after axios rejected
getRejected(r, e) ==
  [r EXCEPT !.pc = "failed", !.log = Append(@, "apiError"), !.token = Null,
            !.error = requestFailed(e)]

used(a) == 1..Len(serviceEndpoints(a))

\* The handler's catch block.
handlerCatch(v, error) ==
  [v EXCEPT !.st = "returned", !.error = error,
            !.text = failureText(v.args.tool, error)]

\* settle resolving with whatever has arrived once any request is done
settle_Partial(v, rs) ==
  IF v.promise # "pending" THEN v
  ELSE IF \E s \in used(v.args) : rs[s].pc = "done"
  THEN LET value == [s \in used(v.args) |-> rs[s].data]
       IN [v EXCEPT !.st = "returned", !.promise = "fulfilled", !.value = value,
                    !.text = successText(v.args, value)]
  ELSE IF \A s \in used(v.args) : rs[s].pc = "failed"
  THEN handlerCatch([v EXCEPT !.promise = "rejected"], rs[1].error)
  ELSE v

\* The promise the handler awaits, after one of its requests settled: a single
\* makeRequest call, or Promise.all over two.  Promise.all rejects with the
\* first rejection and resolves once all have resolved; a promise settles
\* once.  The handler resumes with the outcome and returns its text.
settle(v, rs) ==
  IF v.promise # "pending" THEN v
  ELSE IF \E s \in used(v.args) : rs[s].pc = "failed"
  THEN handlerCatch([v EXCEPT !.promise = "rejected"],
                    rs[CHOOSE s \in used(v.args) : rs[s].pc = "failed"].error)
  ELSE IF \A s \in used(v.args) : rs[s].pc = "done"
  THEN LET value == [s \in used(v.args) |-> rs[s].data]
       IN [v EXCEPT !.st = "returned", !.promise = "fulfilled", !.value = value,
                    !.text = successText(v.args, value)]
  ELSE v

\* ----------------------------------------------------------------- actions
\* A handler called while no service exists and the configuration is
\* incomplete: getPowerPlatformService throws, the handler's catch returns.
InvokeUnconfigured(i, a) ==
  /\ inv[i].st = "idle"
  /\ ~powerPlatformService
  /\ Len(missingConfig(POWERPLATFORM_CONFIG)) > 0
  /\ inv' = [inv EXCEPT ![i] =
       handlerCatch([@ EXCEPT !.args = a], ConfigError(POWERPLATFORM_CONFIG))]
  /\ UNCHANGED <<POWERPLATFORM_CONFIG, powerPlatformService, instances, accessToken,
                 tokenExpirationTime, now, req>>

\* InvokeTool starting only the first request of the service method
InvokeTool_Sequential(i, a) ==
  /\ inv[i].st = "idle"
  /\ powerPlatformService \/ Len(missingConfig(POWERPLATFORM_CONFIG)) = 0
  /\ powerPlatformService' = TRUE
  /\ instances' = IF powerPlatformService THEN instances ELSE instances + 1
  /\ inv' = [inv EXCEPT ![i] = [@ EXCEPT !.st = "running", !.args = a,
                                          !.promise = "pending"]]
  /\ req' = [req EXCEPT ![i] =
       [s \in Slots |->
          IF s = 1
          THEN beginRequest(serviceEndpoints(a)[s], accessToken,
                            tokenExpirationTime, now)
          ELSE IdleRequest]]
  /\ UNCHANGED <<POWERPLATFORM_CONFIG, accessToken, tokenExpirationTime, now>>

\* A handler called with a complete configuration or an existing service:
\* getPowerPlatformService returns the singleton (creating it first when it
\* is null), the service method starts its makeRequest calls, each of which
\* runs to its first await, and the handler awaits the method's promise.
InvokeTool(i, a) ==
  /\ inv[i].st = "idle"
  /\ powerPlatformService \/ Len(missingConfig(POWERPLATFORM_CONFIG)) = 0
  /\ powerPlatformService' = TRUE
  /\ instances' = IF powerPlatformService THEN instances ELSE instances + 1
  /\ inv' = [inv EXCEPT ![i] = [@ EXCEPT !.st = "running", !.args = a,
                                          !.promise = "pending"]]
  /\ req' = [req EXCEPT ![i] =
       [s \in Slots |->
          IF s \in used(a)
          THEN beginRequest(serviceEndpoints(a)[s], accessToken,
                            tokenExpirationTime, now)
          ELSE IdleRequest]]
  /\ UNCHANGED <<POWERPLATFORM_CONFIG, accessToken, tokenExpirationTime, now>>

\* ExchangeSucceeds keeping a credential another call cached meanwhile
ExchangeSucceeds_FirstWins(i, s, res) ==
  /\ req[i][s].pc = "exchanging"
  /\ res \in ExchangeResults(now)
  /\ ~exchangeUnusable(res)
  /\ IF tokenIsFresh(accessToken, tokenExpirationTime, now)
     THEN UNCHANGED <<accessToken, tokenExpirationTime>>
     ELSE /\ accessToken' = res.accessToken
          /\ tokenExpirationTime' = nextExpiration(tokenExpirationTime, res)
  /\ req' = [req EXCEPT ![i][s] = tokenAcquired(@, res)]
  /\ UNCHANGED <<POWERPLATFORM_CONFIG, powerPlatformService, instances, now, inv>>

\* MSAL settles with a usable result: the cache is written and
\* getAccessToken returns.
ExchangeSucceeds(i, s, res) ==
  /\ req[i][s].pc = "exchanging"
  /\ res \in ExchangeResults(now)
  /\ ~exchangeUnusable(res)
  /\ accessToken' = res.accessToken
  /\ tokenExpirationTime' = nextExpiration(tokenExpirationTime, res)
  /\ req' = [req EXCEPT ![i][s] = tokenAcquired(@, res)]
  /\ UNCHANGED <<POWERPLATFORM_CONFIG, powerPlatformService, instances, now, inv>>

\* ExchangeFails dropping the cached credential
ExchangeFails_ClearsCache(i, s, res) ==
  /\ req[i][s].pc = "exchanging"
  /\ res \in ExchangeResults(now)
  /\ exchangeUnusable(res)
  /\ req' = [req EXCEPT ![i][s] = tokenRefused(@, res)]
  /\ inv' = [inv EXCEPT ![i] = settle(@, req'[i])]
  /\ accessToken' = Null
  /\ tokenExpirationTime' = 0
  /\ UNCHANGED <<POWERPLATFORM_CONFIG, powerPlatformService, instances, now>>

\* ExchangeFails caching what the failed exchange left behind
ExchangeFails_Poisons(i, s, res) ==
  /\ req[i][s].pc = "exchanging"
  /\ res \in ExchangeResults(now)
  /\ exchangeUnusable(res)
  /\ req' = [req EXCEPT ![i][s] = tokenRefused(@, res)]
  /\ inv' = [inv EXCEPT ![i] = settle(@, req'[i])]
  /\ accessToken' = "undefined"
  /\ tokenExpirationTime' = EndTime + RefreshMarginMs
  /\ UNCHANGED <<POWERPLATFORM_CONFIG, powerPlatformService, instances, now>>

\* MSAL rejects, or resolves to nothing usable: getAccessToken throws
\* 'Authentication failed', makeRequest rethrows, the awaited promise settles.
ExchangeFails(i, s, res) ==
  /\ req[i][s].pc = "exchanging"
  /\ res \in ExchangeResults(now)
  /\ exchangeUnusable(res)
  /\ req' = [req EXCEPT ![i][s] = tokenRefused(@, res)]
  /\ inv' = [inv EXCEPT ![i] = settle(@, req'[i])]
  /\ UNCHANGED <<POWERPLATFORM_CONFIG, powerPlatformService, instances, accessToken,
                 tokenExpirationTime, now>>

\* makeRequest resumes with the token and calls axios.
IssueGet(i, s) ==
  /\ req[i][s].pc = "gotToken"
  /\ req' = [req EXCEPT ![i][s] = getIssued(@)]
  /\ UNCHANGED <<POWERPLATFORM_CONFIG, powerPlatformService, instances, accessToken,
                 tokenExpirationTime, now, inv>>

\* axios resolves with a 2xx response.
GetSucceeds(i, s, body) ==
  /\ req[i][s].pc = "getting"
  /\ req' = [req EXCEPT ![i][s] = getReturned(@, body)]
  /\ inv' = [inv EXCEPT ![i] = settle(@, req'[i])]
  /\ UNCHANGED <<POWERPLATFORM_CONFIG, powerPlatformService, instances, accessToken,
                 tokenExpirationTime, now>>

\* GetFails dropping the credential the rejected request carried
GetFails_Invalidates(i, s, e) ==
  /\ req[i][s].pc = "getting"
  /\ req' = [req EXCEPT ![i][s] = getRejected(@, e)]
  /\ inv' = [inv EXCEPT ![i] = settle(@, req'[i])]
  /\ accessToken' = Null
  /\ tokenExpirationTime' = 0
  /\ UNCHANGED <<POWERPLATFORM_CONFIG, powerPlatformService, instances, now>>

\* axios rejects: transport failure or a status outside 2xx.
GetFails(i, s, e) ==
  /\ req[i][s].pc = "getting"
  /\ req' = [req EXCEPT ![i][s] = getRejected(@, e)]
  /\ inv' = [inv EXCEPT ![i] = settle(@, req'[i])]
  /\ UNCHANGED <<POWERPLATFORM_CONFIG, powerPlatformService, instances, accessToken,
                 tokenExpirationTime, now>>

\* The dispatcher has the handler's text and every request of the invocation
\* has settled: nothing of the invocation is left, and the host may dispatch
\* another one.
Deliver(i) ==
  /\ inv[i].st = "returned"
  /\ \A s \in Slots : req[i][s].pc \in {"idle", "done", "failed"}
  /\ inv' = [inv EXCEPT ![i] = IdleInvocation]
  /\ req' = [req EXCEPT ![i] = [s \in Slots |-> IdleRequest]]
  /\ UNCHANGED <<POWERPLATFORM_CONFIG, powerPlatformService, instances, accessToken,
                 tokenExpirationTime, now>>

\* Time passes.
Tick ==
  /\ now < EndTime
  /\ now' = now + RefreshMarginMs
  /\ UNCHANGED <<POWERPLATFORM_CONFIG, powerPlatformService, instances, accessToken,
                 tokenExpirationTime, inv, req>>

\* The steps of the invocations I called with arguments from A, the API
\* answering a successful GET with a body from B.
NextOf(I, A, B) ==
  \/ \E i \in I, a \in A : InvokeUnconfigured(i, a)
  \/ \E i \in I, a \in A : InvokeTool(i, a)
  \/ \E i \in I, s \in Slots, res \in AllExchangeResults : ExchangeSucceeds(i, s, res)
  \/ \E i \in I, s \in Slots, res \in AllExchangeResults : ExchangeFails(i, s, res)
  \/ \E i \in I, s \in Slots : IssueGet(i, s)
  \/ \E i \in I, s \in Slots, body \in B : GetSucceeds(i, s, body)
  \/ \E i \in I, s \in Slots, e \in AxiosErrors : GetFails(i, s, e)
  \/ \E i \in I : Deliver(i)
  \/ Tick

\* Concurrent invocations of the single-request operation getRecord: every
\* interleaving of their getAccessToken and makeRequest segments.
RecordArgs == {a \in ToolArgs : a.tool = "get-record" /\ a.a1 = "accounts"}
Next == NextOf(Invocations, RecordArgs, {Body("list", 1)})
Spec == Init /\ [][Next]_vars

\* One invocation at a time, of every tool with every argument and every
\* body; the two requests of get-entity-relationships run concurrently.
NextTools == NextOf({1}, ToolArgs, Bodies)
SpecTools == Init /\ [][NextTools]_vars

\* ------------------------------------------------------------------ claims
\* A call of getAccessToken begins in the step that takes its request out of
\* "idle"; the test it makes reads the cache and the clock of that moment.
begins(i, s) == req[i][s].pc = "idle" /\ req'[i][s].pc # "idle"
cachedAndUnexpired == accessToken \in Tokens /\ tokenExpirationTime > now

\* C1: a getAccessToken call made while a token is cached and its stored
\* expiration time is strictly later than the current time returns exactly
\* the cached token, starts no token exchange, and leaves the cached token
\* and expiration time as they were.
C1_TokenReuse ==
  [][\A i \in Invocations, s \in Slots :
       (begins(i, s) /\ cachedAndUnexpired)
       => /\ req'[i][s].pc = "gotToken"
          /\ req'[i][s].token = accessToken
          /\ req'[i][s].log = <<"cached">>
          /\ accessToken' = accessToken
          /\ tokenExpirationTime' = tokenExpirationTime]_vars

\* C1 witness: a call has just returned the cached token without an exchange.
C1_Witness ==
  \E i \in Invocations, s \in Slots :
    /\ req[i][s].pc = "gotToken"
    /\ req[i][s].log = <<"cached">>
    /\ req[i][s].token = accessToken
    /\ tokenExpirationTime > now

\* the step in which the exchange of call (i, s) returns a usable result
refreshed(i, s) == req[i][s].pc = "exchanging" /\ req'[i][s].pc = "gotToken"

\* a call made with no usable cache starts exactly one exchange
startsOneExchange(i, s) ==
  (begins(i, s) /\ ~cachedAndUnexpired)
  => req'[i][s].pc = "exchanging" /\ req'[i][s].log = <<"exchange">>

\* C2 as stated: a getAccessToken call made with no cached token, or with one
\* whose expiration time is <= the current time, issues exactly one exchange;
\* when it succeeds the cache holds the returned token with expiration = the
\* expiry the authority reported minus 300000 ms, and the call returns that
\* token.
C2_Original ==
  [][\A i \in Invocations, s \in Slots :
       /\ startsOneExchange(i, s)
       /\ refreshed(i, s)
          => LET res == req'[i][s].auth
             IN /\ accessToken' = res.accessToken
                /\ res.expiresOn # None
                /\ tokenExpirationTime' = res.expiresOn[1] - 300000
                /\ req'[i][s].token = res.accessToken
                /\ req'[i][s].log = <<"exchange", "token">>]_vars

\* C2 as amended: as C2, except that the expiration time becomes the reported
\* expiry minus 300000 ms only when the response carries an expiry; when it
\* carries none the token is cached and the expiration time stays as it was.
C2_TokenRefresh ==
  [][\A i \in Invocations, s \in Slots :
       /\ startsOneExchange(i, s)
       /\ refreshed(i, s)
          => LET res == req'[i][s].auth
             IN /\ accessToken' = res.accessToken
                /\ res.expiresOn # None
                   => tokenExpirationTime' = res.expiresOn[1] - 300000
                /\ res.expiresOn = None
                   => tokenExpirationTime' = tokenExpirationTime
                /\ req'[i][s].token = res.accessToken
                /\ req'[i][s].log = <<"exchange", "token">>]_vars

\* C2 witness: a call that found no usable cache has just cached and returned
\* the token of its one exchange, expiring 300000 ms before the reported expiry.
C2_Witness ==
  \E i \in Invocations, s \in Slots :
    /\ req[i][s].pc = "gotToken"
    /\ req[i][s].log = <<"exchange", "token">>
    /\ req[i][s].auth.expiresOn # None
    /\ accessToken = req[i][s].token
    /\ tokenExpirationTime = req[i][s].auth.expiresOn[1] - 300000

AuthCause == <<"Error", "Authentication failed">>
ApiCauses ==
  {<<"AxiosError", "Network Error">>,
   <<"AxiosError", "Request failed with status code 401">>}
last(seq) == seq[Len(seq)]

\* C4 as stated: when token acquisition fails inside makeRequest its caller
\* receives the authentication error unchanged (same kind, same message), and
\* an API error only when the GET itself fails.
C4_Original ==
  \A i \in Invocations, s \in Slots :
    req[i][s].pc = "failed"
    => IF last(req[i][s].log) = "authError"
       THEN req[i][s].error = [name |-> "Error", message |-> <<"Authentication failed">>]
       ELSE req[i][s].error.message[1] = "PowerPlatform API request failed: "

\* C4 as amended: every failure of makeRequest reaches its caller as a new
\* error "PowerPlatform API request failed: <cause>"; the cause is the
\* authentication error "Error: Authentication failed" exactly when token
\* acquisition failed (and then no GET was issued), and the transport or
\* non-2xx error exactly when the GET itself failed.
C4_ErrorsWrapped ==
  \A i \in Invocations, s \in Slots :
    req[i][s].pc = "failed"
    => /\ req[i][s].error.name = "Error"
       /\ Len(req[i][s].error.message) = 3
       /\ req[i][s].error.message[1] = "PowerPlatform API request failed: "
       /\ LET cause == SubSeq(req[i][s].error.message, 2, 3)
          IN /\ cause = AuthCause
                <=> (last(req[i][s].log) = "authError"
                     /\ \A k \in 1..Len(req[i][s].log) : req[i][s].log[k] # "get")
             /\ cause \in ApiCauses
                <=> (last(req[i][s].log) = "apiError"
                     /\ req[i][s].log[Len(req[i][s].log) - 1] = "get")

\* C4 witness: a makeRequest call failed because its token exchange failed.
C4_Witness ==
  \E i \in Invocations, s \in Slots :
    /\ req[i][s].pc = "failed"
    /\ req[i][s].log = <<"exchange", "authError">>
    /\ req[i][s].error.message
         = <<"PowerPlatform API request failed: ", "Error", "Authentication failed">>

\* the step in which makeRequest of call (i, s) calls axios
issuesGet(i, s) == req[i][s].pc = "gotToken" /\ req'[i][s].pc = "getting"

\* C5 as stated: under any interleaving of concurrent invocations, at the
\* moment a GET is issued its bearer token is the token the credential cache
\* holds at that moment.
C5_Original ==
  [][\A i \in Invocations, s \in Slots :
       issuesGet(i, s) => req[i][s].token = accessToken]_vars

\* C5 as amended: the bearer token of every GET is the token the invocation's
\* own getAccessToken call returned, which was the cache's token at the moment
\* that call returned; a refresh by another invocation that completes between
\* that return and the GET replaces the cache but not the bearer token.
C5_BearerIsOwnToken ==
  [][\A i \in Invocations, s \in Slots :
       /\ (req[i][s].pc # "gotToken" /\ req'[i][s].pc = "gotToken")
          => req'[i][s].token = accessToken' /\ req'[i][s].token \in Tokens
       /\ issuesGet(i, s)
          => req'[i][s].token = req[i][s].token /\ req[i][s].token \in Tokens]_vars

\* C5 witness: a GET in flight carries a token that another invocation's
\* refresh has since replaced in the cache.
C5_Witness ==
  \E i \in Invocations, s \in Slots :
    /\ req[i][s].pc = "getting"
    /\ req[i][s].token \in Tokens
    /\ accessToken \in Tokens
    /\ req[i][s].token # accessToken

isRelationships(i) == inv[i].args.tool = "get-entity-relationships"
count(log, ev) == Cardinality({k \in 1..Len(log) : log[k] = ev})

\* C6: getEntityRelationships starts both requests before it awaits either,
\* resolves to {oneToMany, manyToMany} only when both requests succeeded, and
\* fails as a whole, with no partial result, whenever either request fails,
\* whichever fails and in whatever order the two complete.
C6_AllOrNothing ==
  \A i \in Invocations :
    (inv[i].st # "idle" /\ inv[i].promise # "none" /\ isRelationships(i))
    => /\ req[i][1].pc # "idle" /\ req[i][2].pc # "idle"
       /\ req[i][1].endpoint[3] = "')/OneToManyRelationships"
       /\ req[i][2].endpoint[3] = "')/ManyToManyRelationships"
       /\ inv[i].promise = "fulfilled"
          <=> (req[i][1].pc = "done" /\ req[i][2].pc = "done")
       /\ inv[i].promise = "fulfilled"
          => inv[i].value = <<req[i][1].data, req[i][2].data>>
       /\ inv[i].promise = "rejected"
          <=> (req[i][1].pc = "failed" \/ req[i][2].pc = "failed")
       /\ inv[i].promise = "rejected"
          => /\ inv[i].value = <<>>
             /\ inv[i].st = "returned"
             /\ inv[i].text[1] = "Failed to get entity relationships: "
             /\ inv[i].error \in {req[i][s].error : s \in Slots}

\* C6 witness: the one-to-many request failed, the many-to-many request
\* succeeded, and the combined operation failed with no result.
C6_Witness ==
  \E i \in Invocations :
    /\ isRelationships(i)
    /\ req[i][1].pc = "failed"
    /\ req[i][2].pc = "done"
    /\ inv[i].promise = "rejected"
    /\ inv[i].value = <<>>

\* C7: one makeRequest call performs at most one token exchange and at most
\* one GET, and once its exchange or its GET has failed it has ended in
\* failure: the failure is the last network event of the call.
C7_NoRetries ==
  \A i \in Invocations, s \in Slots :
    LET log == req[i][s].log
    IN /\ count(log, "exchange") <= 1
       /\ count(log, "get") <= 1
       /\ \A k \in 1..Len(log) :
            log[k] \in {"authError", "apiError"}
            => k = Len(log) /\ req[i][s].pc = "failed"

\* C7 witness: a call whose exchange succeeded and whose GET failed has ended
\* after one exchange and one GET.
C7_Witness ==
  \E i \in Invocations, s \in Slots :
    /\ req[i][s].pc = "failed"
    /\ req[i][s].log = <<"exchange", "token", "get", "apiError">>

\* C8: a getRecord call that finds no usable cache performs exactly one token
\* exchange, which completes before its GET is issued; it issues exactly one
\* GET, to api/data/v9.2/<plural name>(<id>), and resolves to the response body
\* unchanged; when the exchange fails no GET is issued.
C8_EndToEnd ==
  \A i \in Invocations :
    (inv[i].args.tool = "get-record" /\ inv[i].promise # "none"
     /\ req[i][1].log[1] = "exchange")
    => /\ req[i][1].endpoint
            = <<"api/data/v9.2/", inv[i].args.a1, "(", inv[i].args.a2[1], ")">>
       /\ req[i][2].pc = "idle"
       /\ req[i][1].log \in {<<"exchange">>, <<"exchange", "token">>,
                             <<"exchange", "token", "get">>,
                             <<"exchange", "token", "get", "data">>,
                             <<"exchange", "token", "get", "apiError">>,
                             <<"exchange", "authError">>}
       /\ inv[i].promise = "fulfilled"
          => /\ req[i][1].log = <<"exchange", "token", "get", "data">>
             /\ req[i][1].data \in Bodies
             /\ inv[i].value = <<req[i][1].data>>

\* C8 witness: getRecord("accounts", id) on an empty cache resolved to the
\* body after one exchange and one GET.
C8_Witness ==
  \E i \in Invocations :
    /\ inv[i].args.tool = "get-record"
    /\ inv[i].args.a1 = "accounts"
    /\ inv[i].promise = "fulfilled"
    /\ req[i][1].log = <<"exchange", "token", "get", "data">>
    /\ req[i][1].endpoint
         = <<"api/data/v9.2/", "accounts", "(", "11111111-1111-1111-1111-111111111111", ")">>
    /\ inv[i].value = <<Body("list", 1)>>

FailurePrefixes ==
  {"Failed to get entity metadata: ", "Failed to get entity attributes: ",
   "Failed to get entity attribute: ", "Failed to get entity relationships: ",
   "Failed to get global option set: ", "Failed to get record: ",
   "Failed to query records: "}

\* C9: every tool handler finishes by returning a text to the dispatcher: the
\* serialized data when the service call succeeded, a "Failed to ..." message
\* when configuration, authentication or the API call failed; a successful
\* service call is never reported as a failure.
C9_ErrorsBecomeText ==
  \A i \in Invocations :
    inv[i].st = "returned"
    => /\ inv[i].text # <<>>
       /\ inv[i].promise = "fulfilled" => inv[i].text[1] \notin FailurePrefixes
       /\ inv[i].promise \in {"rejected", "none"} => inv[i].text[1] \in FailurePrefixes

\* the configuration fields that are empty, in the order of the interface
missingFields ==
  SelectSeq(<<"organizationUrl", "clientId", "clientSecret", "tenantId">>,
            LAMBDA f : POWERPLATFORM_CONFIG[f] = "")

\* C10: while any of the four settings is missing, getPowerPlatformService
\* fails with an error naming exactly the missing fields and creates no
\* service, on the first invocation and on every later one; when all four are
\* present the first invocation creates the service and every later one
\* reuses it, so at most one instance is ever created.
C10_LazyConfiguration ==
  /\ instances <= 1
  /\ powerPlatformService <=> instances = 1
  /\ missingFields # <<>>
     => /\ ~powerPlatformService
        /\ \A i \in Invocations :
             /\ inv[i].promise = "none"
             /\ \A s \in Slots : req[i][s].pc = "idle"
             /\ inv[i].st # "idle"
                => /\ inv[i].st = "returned"
                   /\ inv[i].error.message
                        = <<"Missing PowerPlatform configuration: ">> \o missingFields
                            \o <<". Set these in environment variables.">>
  /\ missingFields = <<>>
     => \A i \in Invocations :
          inv[i].st # "idle" => powerPlatformService /\ inv[i].promise # "none"

\* C10 witness: with clientId and tenantId missing, a first and a later
\* invocation have both failed naming those two fields, and no service exists.
C10_Witness ==
  /\ missingFields = <<"clientId", "tenantId">>
  /\ instances = 0
  /\ \A i \in Invocations :
       /\ inv[i].st = "returned"
       /\ inv[i].error.message
            = <<"Missing PowerPlatform configuration: ", "clientId", "tenantId",
                ". Set these in environment variables.">>

\* no call completes a token exchange in this step
noRefresh == \A i \in Invocations, s \in Slots : ~refreshed(i, s)

\* C11 as stated: the cached credential is replaced wholesale: the cached
\* token and expiration time are the initial absent values until a successful
\* exchange writes both from its one response; no successful refresh writes
\* the token and leaves an earlier expiration time (or the initial 0) in place,
\* also when the response carries no expiry.
C11_Original ==
  [][/\ \A i \in Invocations, s \in Slots :
          refreshed(i, s)
          => LET res == req'[i][s].auth
             IN /\ accessToken' = res.accessToken
                /\ res.expiresOn # None
                /\ tokenExpirationTime' = res.expiresOn[1] - 300000
     /\ noRefresh => UNCHANGED <<accessToken, tokenExpirationTime>>]_vars

\* C11 as amended: the cached token and expiration time change only in the
\* step that completes a successful exchange; that step takes the token from
\* the response and, when the response carries an expiry, the expiration time
\* from the same response; when the response carries no expiry it replaces the
\* token alone and the expiration time of the earlier credential (or the
\* initial 0) stays in place.
C11_ReplacedOnRefresh ==
  [][/\ \A i \in Invocations, s \in Slots :
          refreshed(i, s)
          => LET res == req'[i][s].auth
             IN /\ accessToken' = res.accessToken
                /\ tokenExpirationTime'
                     = IF res.expiresOn = None THEN tokenExpirationTime
                       ELSE res.expiresOn[1] - 300000
     /\ noRefresh => UNCHANGED <<accessToken, tokenExpirationTime>>]_vars

\* C11 witness: a refresh whose response carried no expiry has replaced the
\* token of an earlier credential and kept that credential's expiration time.
C11_Witness ==
  \E i \in Invocations, s \in Slots :
    /\ req[i][s].pc = "gotToken"
    /\ req[i][s].log = <<"exchange", "token">>
    /\ req[i][s].auth.expiresOn = None
    /\ accessToken = req[i][s].token
    /\ tokenExpirationTime > 0

\* the calls other than those of invocation i are as they were
othersKept(i) == \A j \in Invocations \ {i} : req'[j] = req[j]
\* the calls other than (i, s) are as they were
restKept(i, s) ==
  \A j \in Invocations, t \in Slots : <<j, t>> # <<i, s>> => req'[j][t] = req[j][t]

\* a call begun without a usable cache starts its own exchange, whatever other
\* exchanges are in flight, and those stay in flight
ownExchange(i, s) ==
  (begins(i, s) /\ ~cachedAndUnexpired)
  => /\ req'[i][s].pc = "exchanging"
     /\ req'[i][s].log = <<"exchange">>
     /\ othersKept(i)

\* C12 as stated: calls made while no valid credential is cached each start
\* their own exchange (no lock, no coalescing); each exchange that succeeds
\* returns its own token to its caller; every successful exchange overwrites
\* the cached token and expiration with its own, so after all have completed
\* the cache holds the token and expiration written by the one that completed
\* last.
C12_Original ==
  [][\A i \in Invocations, s \in Slots :
       /\ ownExchange(i, s)
       /\ refreshed(i, s)
          => LET res == req'[i][s].auth
             IN /\ req'[i][s].token = res.accessToken
                /\ restKept(i, s)
                /\ accessToken' = res.accessToken
                /\ res.expiresOn # None
                /\ tokenExpirationTime' = res.expiresOn[1] - 300000]_vars

\* C12 as amended: as C12, except that after all have completed the cache
\* holds the token written by the successful exchange that completed last and
\* the expiration time written by the last successful exchange whose response
\* carried an expiry (the earlier value when none did): an exchange whose
\* response carries no expiry overwrites the token only.
C12_LastWriteWins ==
  [][\A i \in Invocations, s \in Slots :
       /\ ownExchange(i, s)
       /\ refreshed(i, s)
          => LET res == req'[i][s].auth
             IN /\ req'[i][s].token = res.accessToken
                /\ restKept(i, s)
                /\ accessToken' = res.accessToken
                /\ res.expiresOn # None
                   => tokenExpirationTime' = res.expiresOn[1] - 300000
                /\ res.expiresOn = None
                   => tokenExpirationTime' = tokenExpirationTime]_vars

\* C12 witness: two invocations exchanged concurrently; each holds its own
\* token, and the cache holds the token and expiration of the one whose
\* exchange completed last, over a credential that was still unexpired.
C12_Witness ==
  \E i, j \in Invocations :
    /\ i # j
    /\ req[i][1].log = <<"exchange", "token", "get">>
    /\ req[i][1].token \in Tokens
    /\ req[j][1].pc = "gotToken"
    /\ req[j][1].log = <<"exchange", "token">>
    /\ req[j][1].token \in Tokens \ {req[i][1].token}
    /\ req[j][1].auth.expiresOn # None
    /\ accessToken = req[j][1].token
    /\ tokenExpirationTime = req[j][1].auth.expiresOn[1] - 300000

\* the event logs of a call that failed, and of a call that returned
FailedLogs ==
  {<<"exchange", "authError">>, <<"exchange", "token", "get", "apiError">>,
   <<"cached", "get", "apiError">>}
ReturnedLogs == {<<"exchange", "token", "get", "data">>, <<"cached", "get", "data">>}
configured == powerPlatformService \/ Len(missingConfig(POWERPLATFORM_CONFIG)) = 0

\* C13: the client has no terminal or poisoned state.  In every reachable
\* state, whatever calls failed before: a new call can be made; a call awaiting
\* an exchange can have it succeed; a call past its token holds a token issued
\* by a successful exchange and can issue its GET; a GET in flight can succeed;
\* a call has failed only by its own exchange or its own GET failing; and a
\* call whose exchange (when one was needed) and GET succeeded has returned the
\* response body to its caller.
C13_NoPoisonedState ==
  \A i \in Invocations :
    /\ (inv[i].st = "idle" /\ configured)
       => \A a \in RecordArgs : ENABLED InvokeTool(i, a)
    /\ \A s \in Slots :
         LET r == req[i][s]
         IN /\ r.pc = "exchanging"
               => \E res \in ExchangeResults(now) : ENABLED ExchangeSucceeds(i, s, res)
            /\ r.pc = "gotToken" => (r.token \in Tokens /\ ENABLED IssueGet(i, s))
            /\ r.pc = "getting" => ENABLED GetSucceeds(i, s, Body("list", 1))
            /\ r.pc = "failed" <=> r.log \in FailedLogs
            /\ r.log \in ReturnedLogs
               => /\ r.pc = "done"
                  /\ r.data = Body("list", 1)
                  /\ inv[i].promise = "fulfilled"
                  /\ inv[i].value = <<r.data>>

\* C13 witness: one invocation has failed in its exchange and been reported,
\* and another, which needed an exchange too, has returned the response body.
C13_Witness ==
  \E i, j \in Invocations :
    /\ inv[i].promise = "rejected"
    /\ req[i][1].log = <<"exchange", "authError">>
    /\ req[j][1].log = <<"exchange", "token", "get", "data">>
    /\ inv[j].promise = "fulfilled"
    /\ inv[j].value = <<Body("list", 1)>>

\* C14: row cap of query-records.  For every maxRecords value the caller
\* supplies, the request the handler causes carries $top equal to that value
\* (the value 0 included), and $top=50 exactly when maxRecords is omitted.
C14_RowCap ==
  \A i \in Invocations :
    (inv[i].args.tool = "query-records" /\ req[i][1].pc # "idle")
    => LET endpoint == req[i][1].endpoint
           maxRecords == inv[i].args.a3
       IN /\ endpoint[Len(endpoint) - 1] = "&$top="
          /\ maxRecords # None => last(endpoint) = ToString(maxRecords[1])
          /\ last(endpoint) = "50" <=> maxRecords = None

getFailed(i, s) == req[i][s].pc = "getting" /\ req'[i][s].pc = "failed"

\* C15: the credential cache is written only by a step in which a token
\* exchange succeeds.  A step in which a GET fails (transport failure or a
\* status outside 2xx, a 401 included) leaves the cached token and expiration
\* time unchanged; a call begun while the stored expiration time is not yet
\* reached sends the cached token without a new exchange, and a call begun
\* once it is reached starts an exchange.
C15_CacheWrittenOnSuccessOnly ==
  [][/\ noRefresh => UNCHANGED <<accessToken, tokenExpirationTime>>
     /\ \A i \in Invocations, s \in Slots :
          /\ getFailed(i, s)
             => /\ UNCHANGED <<accessToken, tokenExpirationTime>>
                /\ cachedAndUnexpired' = cachedAndUnexpired
                /\ last(req'[i][s].log) = "apiError"
          /\ begins(i, s)
             => IF accessToken \in Tokens /\ tokenExpirationTime > now
                THEN /\ req'[i][s].pc = "gotToken"
                     /\ req'[i][s].token = accessToken
                     /\ count(req'[i][s].log, "exchange") = 0
                ELSE req'[i][s].pc = "exchanging"]_vars

\* C15 witness: the API has rejected with 401 the GET of a call that sent the
\* token its own exchange cached; the cache still holds that credential,
\* unexpired, and another call is sending the same token without an exchange.
C15_Witness ==
  \E i, j \in Invocations :
    /\ req[i][1].log = <<"exchange", "token", "get", "apiError">>
    /\ req[i][1].error
         = requestFailed(Err("AxiosError", <<"Request failed with status code 401">>))
    /\ req[j][1].log = <<"cached", "get">>
    /\ req[j][1].token = accessToken
    /\ cachedAndUnexpired

\* C16: one getEntityRelationships invocation.  Begun with no valid cached
\* credential, both of its requests start an exchange of their own in the
\* step that begins it, before either exchange has completed: two exchanges,
\* and none is added or dropped later.  Begun with a valid cached credential,
\* neither request ever exchanges, and both GETs carry the cached token.
C16_TwoExchanges ==
  [][\A i \in Invocations :
       /\ (begins(i, 1) /\ inv'[i].args.tool = "get-entity-relationships")
          => IF cachedAndUnexpired
             THEN \A s \in Slots :
                    /\ req'[i][s].pc = "gotToken"
                    /\ req'[i][s].log = <<"cached">>
                    /\ req'[i][s].token = accessToken
             ELSE \A s \in Slots :
                    /\ req'[i][s].pc = "exchanging"
                    /\ req'[i][s].log = <<"exchange">>
       /\ (isRelationships(i) /\ inv'[i].st # "idle")
          => \A s \in Slots :
               /\ count(req'[i][s].log, "exchange") = count(req[i][s].log, "exchange")
               /\ (issuesGet(i, s) /\ req[i][s].log = <<"cached">>)
                  => /\ req'[i][s].token = accessToken
                     /\ \A t \in Slots :
                          req[i][t].token # Null => req[i][t].token = accessToken]_vars

\* C16 witness: both requests of one getEntityRelationships invocation have
\* completed an exchange of their own, with different tokens.
C16_Witness ==
  \E i \in Invocations :
    /\ isRelationships(i)
    /\ \A s \in Slots : req[i][s].log = <<"exchange", "token">>
    /\ req[i][1].token \in Tokens
    /\ req[i][2].token \in Tokens \ {req[i][1].token}
====
